---- MODULE Spec2Model ----
\* A model of StockfishManager (src/webpack.config.js, lines 60-315) and of the
\* callers in the Electron main process (src/unnamed/part_000).
\*
\* The manager's fields keep their source names.  Every method is an operator
\* that maps a state record to a state record, so that nested calls
\* (handleStockfishOutput -> sendCommand, emit -> listeners, ...) compose as in
\* the code.  An action of the model is one callback of the event loop, run to
\* completion: a public call, one chunk of stdout, a 'close' event, a timer.
EXTENDS Integers, Sequences, FiniteSets, TLC

\* ---------------------------------------------------------------------------
\* Bounds of the model
\* ---------------------------------------------------------------------------
MaxProcs == 2
MaxReqs == 2
MaxQueue == 2
\* The characters an engine writes to its stdout, where chunks are followed
MaxStream == 14

\* ---------------------------------------------------------------------------
\* Program constants
\* ---------------------------------------------------------------------------
GraceMs == 1000
MinSkill == 0
MaxSkill == 20

\* ---------------------------------------------------------------------------
\* JavaScript values
\* ---------------------------------------------------------------------------
\* null as an object reference / process handle / timer handle
NullRef == 0
\* null and undefined as the value of a numeric field (\d+ never yields < 0)
NullNum == -1
Undef == -2

\* JS relational comparison a >= b where a may be null (-> 0) or undefined (NaN)
JsGe(a, b) ==
  IF a = Undef THEN FALSE
  ELSE IF a = NullNum THEN 0 >= b
  ELSE a >= b

\* An Evaluation object's fields; type "none" stands for "no object".
NoEval == [type |-> "none", value |-> 0, depth |-> Undef, nodes |-> Undef, time |-> Undef]

\* ---------------------------------------------------------------------------
\* Protocol text: a line is its sequence of space-separated tokens
\* ---------------------------------------------------------------------------
W(s) == [isNum |-> FALSE, w |-> s, n |-> 0]
N(i) == [isNum |-> TRUE, w |-> "", n |-> i]

LineUciok == <<W("uciok")>>
LineReadyok == <<W("readyok")>>
LineBestmove == <<W("bestmove"), W("e2e4"), W("ponder"), W("e7e5")>>
LineInfoCp == <<W("info"), W("depth"), N(12), W("score"), W("cp"), N(34),
                W("nodes"), N(1000), W("time"), N(50)>>
LineInfoNoScore == <<W("info"), W("depth"), N(5), W("nodes"), N(200)>>
LineInfoMate == <<W("info"), W("score"), W("mate"), N(-3)>>
LineInfoNodes == <<W("info"), W("score"), W("cp"), N(-20), W("nodes"), N(7)>>

\* The handshake lines as the characters the engine writes
NL == "\n"
TextUciok == <<"u", "c", "i", "o", "k">>
TextReadyok == <<"r", "e", "a", "d", "y", "o", "k">>
HandshakeTexts == {TextUciok, TextReadyok}

HandshakeLines == {LineUciok, LineReadyok}

EngineLines == {LineUciok, LineReadyok, LineBestmove, LineInfoCp, LineInfoNoScore,
                LineInfoMate, LineInfoNodes}

\* Inputs of the public operations
Fens == {1}
TimeLimits == {1000}
Depths == {12}
Levels == {-5, 25}
\* ... and the levels of the specification that looks at setSkillLevel alone
WideLevels == {-5, -1, 0, 1, 10, 19, 20, 21, 25}

\* Commands: the text before the argument, and the argument (0 when none)
Cmd(c, a) == [c |-> c, a |-> a]
CmdUci == Cmd("uci", 0)
CmdIsready == Cmd("isready", 0)
CmdStop == Cmd("stop", 0)
CmdNewGame == Cmd("ucinewgame", 0)
CmdQuit == Cmd("quit", 0)

\* ---------------------------------------------------------------------------
\* State
\* ---------------------------------------------------------------------------
VARIABLES
  stockfishProcess,   \* this.stockfishProcess: NullRef or the id of a spawned process
  isReady,            \* this.isReady
  pendingCommands,    \* this.pendingCommands
  currentEvaluation,  \* this.currentEvaluation: NullRef or a reference into heap
  moveTimeout,        \* this.moveTimeout: NullRef or the timer of request r
  heap,               \* the Evaluation objects, by reference
  procs,              \* the child processes spawned so far
  reqs,               \* the accepted getBestMove / evaluatePosition promises
  written,            \* what this callback wrote to which process's stdin
  emitted,            \* the notifications this callback emitted
  readyListener,      \* a caller's 'ready' listener that sends a command is subscribed
  pipe,               \* the engine's stdout as characters: in transit, delivered, handled
  op                  \* the callback that ran last, with its input and outcome

vars == <<stockfishProcess, isReady, pendingCommands, currentEvaluation, moveTimeout,
          heap, procs, reqs, written, emitted, readyListener, pipe, op>>

HeapSize == MaxReqs + 1
Refs == 1..HeapSize
Slots == 1..MaxReqs

NoResult == [move |-> "", evaluation |-> NoEval]

\* new Error('Move calculation timeout'), the reason a timer rejects with
Timeout == [move |-> "Move calculation timeout", evaluation |-> NoEval]

\* A promise the executor of getBestMove / evaluatePosition has accepted, with
\* its timer, its listeners and the closure variable finalEvaluation; `retained`
\* remembers the fields finalEvaluation had when the handler retained it.
Request(kind, arg, delay) ==
  [kind |-> kind, arg |-> arg, delay |-> delay,
   timer |-> IF kind = "best" THEN "armed" ELSE "none",
   onBestmove |-> TRUE, onEvaluation |-> (kind = "eval"),
   outcome |-> "pending", result |-> NoResult,
   finalEvaluation |-> NullRef, retained |-> NoEval]

\* A slot that holds no promise
NoRequest ==
  [kind |-> "none", arg |-> 0, delay |-> 0, timer |-> "none",
   onBestmove |-> FALSE, onEvaluation |-> FALSE,
   outcome |-> "none", result |-> NoResult,
   finalEvaluation |-> NullRef, retained |-> NoEval]

\* A settled promise with no listener and no armed timer left: nothing can
\* act on it any more, and it is dropped once its outcome has been delivered.
Inert(q) ==
  /\ q.outcome \in {"resolved", "rejected"}
  /\ ~q.onBestmove /\ ~q.onEvaluation
  /\ q.timer # "armed"

\* The promises as the next callback finds them: the outcomes settled by the
\* previous callback have been handed to their callers.
Live(rs) ==
  [r \in Slots |->
     IF Inert(rs[r]) THEN NoRequest
     ELSE [rs[r] EXCEPT !.result = NoResult]]

FreeSlots(s) == {r \in Slots : s.reqs[r].kind = "none"}
NewSlot(s) == CHOOSE r \in FreeSlots(s) : \A q \in FreeSlots(s) : r <= q

\* The state as one record, as the methods see it.
State ==
  [stockfishProcess |-> stockfishProcess, isReady |-> isReady,
   pendingCommands |-> pendingCommands, currentEvaluation |-> currentEvaluation,
   moveTimeout |-> moveTimeout, heap |-> heap, procs |-> procs, reqs |-> Live(reqs),
   written |-> <<>>, emitted |-> <<>>, readyListener |-> readyListener, pipe |-> pipe,
   rejection |-> ""]

\* ---------------------------------------------------------------------------
\* EventEmitter: listeners and notifications
\* ---------------------------------------------------------------------------
Note(ev, move, evaluation) == [ev |-> ev, move |-> move, evaluation |-> evaluation]

\* The object a reference denotes now (NoEval for null)
Deref(s, ref) == IF ref = NullRef THEN NoEval ELSE s.heap[ref]

\* A promise that could be settled again and again
Settle_Repeatable(q, outcome, result) ==
  [q EXCEPT !.outcome = outcome, !.result = result]

\* resolve(value) / reject(error) of the promise of request r: only the first
\* settlement of a promise counts.
Settle(q, outcome, result) ==
  IF q.outcome = "pending"
  THEN [q EXCEPT !.outcome = outcome, !.result = result]
  ELSE q

\* getBestMove's moveHandler(moveData), for a request record q
moveHandler(q, moveData) ==
  Settle([q EXCEPT !.onBestmove = FALSE], "resolved", moveData)

\* evaluatePosition's moveHandler(), for a request record q
evalMoveHandler(s, q) ==
  Settle([q EXCEPT !.onEvaluation = FALSE, !.onBestmove = FALSE, !.finalEvaluation = NullRef],
         "resolved", [move |-> "", evaluation |-> Deref(s, q.finalEvaluation)])

\* evaluatePosition's evaluationHandler(evaluation), for a request record q
evaluationHandler(s, q, evaluation) ==
  IF JsGe(s.heap[evaluation].depth, q.arg)
  THEN [q EXCEPT !.finalEvaluation = evaluation, !.retained = s.heap[evaluation]]
  ELSE q

\* this.emit('bestmove', moveData): every subscribed request's handler runs; the
\* observer of part_000 forwards the payload to the window.
emitBestmove(s, moveData) ==
  [s EXCEPT
     !.emitted = Append(@, Note("bestmove", moveData.move, moveData.evaluation)),
     !.reqs = [r \in DOMAIN s.reqs |->
                 IF ~s.reqs[r].onBestmove THEN s.reqs[r]
                 ELSE IF s.reqs[r].kind = "best" THEN moveHandler(s.reqs[r], moveData)
                 ELSE evalMoveHandler(s, s.reqs[r])]]

\* this.emit('evaluation', this.currentEvaluation)
emitEvaluation(s, evaluation) ==
  [s EXCEPT
     !.emitted = Append(@, Note("evaluation", "", s.heap[evaluation])),
     !.reqs = [r \in DOMAIN s.reqs |->
                 IF s.reqs[r].onEvaluation
                 THEN evaluationHandler(s, s.reqs[r], evaluation)
                 ELSE s.reqs[r]]]

\* this.emit('ready') and this.emit('error', message)
emitPlain(s, ev) == [s EXCEPT !.emitted = Append(@, Note(ev, "", NoEval))]

\* ---------------------------------------------------------------------------
\* sendCommand, processPendingCommands
\* ---------------------------------------------------------------------------
sendCommand(s, command) ==
  IF s.stockfishProcess = NullRef THEN s
  ELSE IF ~s.isReady /\ command # CmdUci /\ command # CmdIsready
  THEN [s EXCEPT !.pendingCommands = Append(@, command)]
  ELSE [s EXCEPT !.written = Append(@, [p |-> s.stockfishProcess, cmd |-> command])]

\* emit('ready'): the listeners run inside the call, a caller's listener that
\* sends 'ucinewgame' among them
emitReady(s) ==
  LET s1 == emitPlain(s, "ready")
  IN IF s.readyListener THEN sendCommand(s1, CmdNewGame) ELSE s1

RECURSIVE processPendingCommands(_)
processPendingCommands(s) ==
  IF Len(s.pendingCommands) > 0
  THEN LET command == Head(s.pendingCommands)
       IN processPendingCommands(
            sendCommand([s EXCEPT !.pendingCommands = Tail(@)], command))
  ELSE s

\* ---------------------------------------------------------------------------
\* The output parser
\* ---------------------------------------------------------------------------
\* line.includes(word + ' '): the word is a token and another token follows it
Includes(line, word) == \E i \in 1..(Len(line) - 1) : line[i].w = word

\* line.match(/<word> (-?\d+)/) when signed, line.match(/<word> (\d+)/) when not:
\* the leftmost place where <word> ends a token and a number follows.  `words`
\* are the tokens of the alphabet that end in <word> ("seldepth" ends in "depth").
Match(line, words, signed) ==
  LET at == {i \in 1..(Len(line) - 1) :
               /\ line[i].w \in words
               /\ line[i + 1].isNum
               /\ (signed \/ line[i + 1].n >= 0)}
  IN IF at = {} THEN [found |-> FALSE, n |-> 0]
     ELSE [found |-> TRUE,
           n |-> line[(CHOOSE i \in at : \A j \in at : i <= j) + 1].n]

\* The references still held by a closure of a pending evaluatePosition
Retained(s) == {s.reqs[r].finalEvaluation : r \in DOMAIN s.reqs} \ {NullRef}

\* this.currentEvaluation = { type, value }: a new object
newEvaluation(s, type, value) ==
  LET ref == CHOOSE i \in Refs \ Retained(s) : \A j \in Refs \ Retained(s) : i <= j
  IN [s EXCEPT !.currentEvaluation = ref,
               !.heap[ref] = [NoEval EXCEPT !.type = type, !.value = value]]

\* handleInfoLine completing and emitting the evaluation whether or not the
\* line carries depth or nodes
handleInfoLine_AlwaysEmits(s, line) ==
  LET cpMatch == Match(line, {"cp"}, TRUE)
      mateMatch == Match(line, {"mate"}, TRUE)
      s1 == IF Includes(line, "cp")
            THEN (IF cpMatch.found THEN newEvaluation(s, "centipawn", cpMatch.n) ELSE s)
            ELSE IF Includes(line, "mate")
            THEN (IF mateMatch.found THEN newEvaluation(s, "mate", mateMatch.n) ELSE s)
            ELSE s
      depthMatch == Match(line, {"depth", "seldepth"}, FALSE)
      nodesMatch == Match(line, {"nodes"}, FALSE)
      timeMatch == Match(line, {"time", "movetime"}, FALSE)
      cur == s1.currentEvaluation
  IN IF cur # NullRef
     THEN emitEvaluation(
            [s1 EXCEPT
               !.heap[cur].depth = IF depthMatch.found THEN depthMatch.n ELSE NullNum,
               !.heap[cur].nodes = IF nodesMatch.found THEN nodesMatch.n ELSE NullNum,
               !.heap[cur].time = IF timeMatch.found THEN timeMatch.n ELSE NullNum],
            cur)
     ELSE s1

handleInfoLine(s, line) ==
  LET cpMatch == Match(line, {"cp"}, TRUE)
      mateMatch == Match(line, {"mate"}, TRUE)
      s1 == IF Includes(line, "cp")
            THEN (IF cpMatch.found THEN newEvaluation(s, "centipawn", cpMatch.n) ELSE s)
            ELSE IF Includes(line, "mate")
            THEN (IF mateMatch.found THEN newEvaluation(s, "mate", mateMatch.n) ELSE s)
            ELSE s
      depthMatch == Match(line, {"depth", "seldepth"}, FALSE)
      nodesMatch == Match(line, {"nodes"}, FALSE)
      timeMatch == Match(line, {"time", "movetime"}, FALSE)
      cur == s1.currentEvaluation
  IN IF cur # NullRef /\ (depthMatch.found \/ nodesMatch.found)
     THEN emitEvaluation(
            [s1 EXCEPT
               !.heap[cur].depth = IF depthMatch.found THEN depthMatch.n ELSE NullNum,
               !.heap[cur].nodes = IF nodesMatch.found THEN nodesMatch.n ELSE NullNum,
               !.heap[cur].time = IF timeMatch.found THEN timeMatch.n ELSE NullNum],
            cur)
     ELSE s1

\* clearTimeout(handle): a timer that already ran or was cleared is left alone
clearTimeout(s, handle) ==
  [s EXCEPT !.reqs[handle].timer = IF @ = "armed" THEN "cleared" ELSE @]

handleBestMove(s, line) ==
  LET bestMove == IF Len(line) >= 2 THEN line[2].w ELSE "undefined"
      s1 == IF s.moveTimeout # NullRef
            THEN [clearTimeout(s, s.moveTimeout) EXCEPT !.moveTimeout = NullRef]
            ELSE s
  IN emitBestmove(s1, [move |-> bestMove,
                       evaluation |-> Deref(s1, s1.currentEvaluation)])

\* One iteration of the loop of handleStockfishOutput
handleLine(s, line) ==
  IF line = LineUciok THEN sendCommand(s, CmdIsready)
  ELSE IF line = LineReadyok
  THEN (IF ~s.isReady
        THEN processPendingCommands(emitReady([s EXCEPT !.isReady = TRUE]))
        ELSE s)
  ELSE IF line[1].w = "bestmove" THEN handleBestMove(s, line)
  ELSE IF line[1].w = "info" THEN handleInfoLine(s, line)
  ELSE s

\* handleStockfishOutput(output), output.trim().split('\n') being `lines`
RECURSIVE handleStockfishOutput(_, _)
handleStockfishOutput(s, lines) ==
  IF lines = <<>> THEN s
  ELSE handleStockfishOutput(handleLine(s, Head(lines)), Tail(lines))

\* ---------------------------------------------------------------------------
\* The public operations
\* ---------------------------------------------------------------------------
\* String.prototype.trim(): white space off both ends
IsSpace(c) == c \in {" ", NL, "\t", "\r"}

RECURSIVE trimStart(_)
trimStart(cs) ==
  IF cs # <<>> /\ IsSpace(Head(cs)) THEN trimStart(Tail(cs)) ELSE cs

RECURSIVE trimEnd(_)
trimEnd(cs) ==
  IF cs # <<>> /\ IsSpace(cs[Len(cs)]) THEN trimEnd(SubSeq(cs, 1, Len(cs) - 1)) ELSE cs

trim(cs) == trimEnd(trimStart(cs))

\* String.prototype.split('\n'): the pieces between newlines, one piece (the
\* whole, even if empty) when there is none
RECURSIVE split(_)
split(cs) ==
  IF \A i \in DOMAIN cs : cs[i] # NL THEN <<cs>>
  ELSE LET i == CHOOSE j \in DOMAIN cs :
                  cs[j] = NL /\ \A k \in 1..(j - 1) : cs[k] # NL
       IN <<SubSeq(cs, 1, i - 1)>> \o split(SubSeq(cs, i + 1, Len(cs)))

\* A line of characters as the loop's tests see it: equal to 'uciok', equal
\* to 'readyok', or (for the fragments of those two) none of the four kinds
Tokens(text) ==
  IF text = TextUciok THEN LineUciok
  ELSE IF text = TextReadyok THEN LineReadyok
  ELSE <<W("?")>>

\* stdout's 'data' listener: handleStockfishOutput(data.toString())
onData(s, data) ==
  LET texts == split(trim(data))
  IN [handleStockfishOutput(s, [i \in DOMAIN texts |-> Tokens(texts[i])])
        EXCEPT !.pipe = [pending |-> SubSeq(@.pending, Len(data) + 1, Len(@.pending)),
                         delivered |-> @.delivered \o data,
                         handled |-> @.handled \o texts]]

\* initialize() without its check that the binary exists
initialize_Unchecked(s, exists) ==
  sendCommand(
    [s EXCEPT !.procs = Append(@, [closed |-> FALSE, handshake |-> 0, readies |-> 0, owed |-> <<>>]),
              !.stockfishProcess = Len(s.procs) + 1],
    CmdUci)

\* initialize(); `exists` is fs.existsSync(stockfishPath)
initialize(s, exists) ==
  IF ~exists THEN emitPlain(s, "error")
  ELSE sendCommand(
         [s EXCEPT !.procs = Append(@, [closed |-> FALSE, handshake |-> 0, readies |-> 0, owed |-> <<>>]),
                   !.stockfishProcess = Len(s.procs) + 1],
         CmdUci)

\* The 'close' listener that initialize() put on process p
onClose(s, p) == [s EXCEPT !.procs[p].closed = TRUE, !.isReady = FALSE]

\* getBestMove without its readiness check
getBestMove_Unguarded(s, fen, timeLimit) ==
  LET r == NewSlot(s)
      s1 == [s EXCEPT !.reqs[r] = Request("best", timeLimit, timeLimit + GraceMs),
                      !.moveTimeout = r]
  IN sendCommand(sendCommand(s1, Cmd("position fen", fen)),
                 Cmd("go movetime", timeLimit))

getBestMove(s, fen, timeLimit) ==
  IF ~s.isReady THEN [s EXCEPT !.rejection = "Stockfish not ready"]
  ELSE LET r == NewSlot(s)
           s1 == [s EXCEPT !.reqs[r] = Request("best", timeLimit, timeLimit + GraceMs),
                           !.moveTimeout = r]
       IN sendCommand(sendCommand(s1, Cmd("position fen", fen)),
                      Cmd("go movetime", timeLimit))

\* The callback of the timer getBestMove armed for request r
moveTimeoutFired(s, r) ==
  LET s1 == sendCommand(s, CmdStop)
  IN [s1 EXCEPT !.reqs[r] = Settle([@ EXCEPT !.timer = "fired"], "rejected", Timeout)]

evaluatePosition(s, fen, depth) ==
  IF ~s.isReady THEN [s EXCEPT !.rejection = "Stockfish not ready"]
  ELSE LET s1 == [s EXCEPT !.reqs[NewSlot(s)] = Request("eval", depth, 0)]
       IN sendCommand(sendCommand(s1, Cmd("position fen", fen)),
                      Cmd("go depth", depth))

Max(a, b) == IF a >= b THEN a ELSE b
Min(a, b) == IF a <= b THEN a ELSE b

\* setSkillLevel passing the level on as it came
setSkillLevel_Unclamped(s, level) ==
  LET clampedLevel == level
      s1 == sendCommand(s, Cmd("setoption name Skill Level value", clampedLevel))
  IN IF clampedLevel < MaxSkill
     THEN sendCommand(s1, Cmd("setoption name MultiPV value", 1))
     ELSE s1

setSkillLevel(s, level) ==
  LET clampedLevel == Max(MinSkill, Min(MaxSkill, level))
      s1 == sendCommand(s, Cmd("setoption name Skill Level value", clampedLevel))
  IN IF clampedLevel < MaxSkill
     THEN sendCommand(s1, Cmd("setoption name MultiPV value", 1))
     ELSE s1

stop(s) == IF s.stockfishProcess # NullRef THEN sendCommand(s, CmdStop) ELSE s

quit(s) ==
  IF s.stockfishProcess # NullRef
  THEN [sendCommand(s, CmdQuit) EXCEPT !.stockfishProcess = NullRef, !.isReady = FALSE]
  ELSE s

\* ---------------------------------------------------------------------------
\* The event loop: one callback per step
\* ---------------------------------------------------------------------------
Op(name, p, line, arg, result) ==
  [name |-> name, p |-> p, line |-> line, arg |-> arg, result |-> result]

\* Objects no reference reaches any more are gone
Collect(s) ==
  [i \in Refs |->
     IF i = s.currentEvaluation \/ i \in Retained(s) THEN s.heap[i] ELSE NoEval]

\* What process p has seen of the handshake: its 'uciok', then its 'readyok'
Handshake(h, line) ==
  IF line = LineUciok /\ h = 0 THEN 1
  ELSE IF line = LineReadyok /\ h = 1 THEN 2
  ELSE h

\* How many 'ready' notifications a callback emitted
Readies(notes) == Cardinality({i \in DOMAIN notes : notes[i].ev = "ready"})

\* The timers that will queue their 'stop' when they fire: those armed while
\* a process handle is held and the manager is not ready
QueueingTimers(s) ==
  IF s.stockfishProcess # NullRef /\ ~s.isReady
  THEN Cardinality({r \in Slots : s.reqs[r].timer = "armed"})
  ELSE 0

\* The queue a callback leaves stays within the model's bound, with room for
\* the 'stop' of every such timer: the bound never holds a timer back
QueueFits(s) == Len(s.pendingCommands) + QueueingTimers(s) <= MaxQueue

\* The state a callback leaves behind
Commit(s, o) ==
  /\ stockfishProcess' = s.stockfishProcess
  /\ isReady' = s.isReady
  /\ pendingCommands' = s.pendingCommands
  /\ currentEvaluation' = s.currentEvaluation
  /\ moveTimeout' = s.moveTimeout
  /\ heap' = Collect(s)
  /\ procs' = s.procs
  /\ reqs' = s.reqs
  /\ written' = s.written
  /\ emitted' = s.emitted
  /\ readyListener' = s.readyListener
  /\ pipe' = s.pipe
  /\ op' = o

Init ==
  /\ stockfishProcess = NullRef
  /\ isReady = FALSE
  /\ pendingCommands = <<>>
  /\ currentEvaluation = NullRef
  /\ moveTimeout = NullRef
  /\ heap = [i \in Refs |-> NoEval]
  /\ procs = <<>>
  /\ reqs = [r \in Slots |-> NoRequest]
  /\ written = <<>>
  /\ emitted = <<>>
  /\ readyListener = FALSE
  /\ pipe = [pending |-> <<>>, delivered |-> <<>>, handled |-> <<>>]
  /\ op = Op("new", 0, <<>>, 0, "")

\* initializeStockfish() of part_000: the one initialize() of a manager
Initialize ==
  \E exists \in BOOLEAN :
    /\ procs = <<>>
    /\ Commit(initialize(State, exists),
              Op("initialize", 0, <<>>, 0, IF exists THEN "spawned" ELSE "EngineNotFound"))

\* initialize() called again on a manager that has spawned a process before
Reinitialize ==
  /\ Len(procs) \in 1..(MaxProcs - 1)
  /\ Commit(initialize(State, TRUE), Op("initialize", 0, <<>>, 0, "respawned"))

\* The 'data' listener of process p's stdout, for a chunk holding one complete
\* line; h is what p has seen of the handshake after it.
StdoutLine(p, line, h) ==
  /\ ~procs[p].closed
  /\ LET s == handleStockfishOutput(State, <<line>>)
     IN Commit([s EXCEPT !.procs[p].handshake = h,
                         !.procs[p].readies = @ + Readies(s.emitted)],
               Op("stdout", p, line, 0, ""))

\* Any line of the engine; the handshake is not followed here
StdoutData ==
  \E p \in DOMAIN procs : \E line \in EngineLines :
    StdoutLine(p, line, procs[p].handshake)

\* The handshake lines only, with each process's handshake followed
HandshakeData ==
  \E p \in DOMAIN procs : \E line \in HandshakeLines :
    StdoutLine(p, line, Handshake(procs[p].handshake, line))

Close ==
  \E p \in DOMAIN procs :
    /\ ~procs[p].closed
    /\ Commit(onClose(State, p), Op("close", p, <<>>, 0, ""))

GetBestMove ==
  \E fen \in Fens : \E timeLimit \in TimeLimits :
    /\ isReady => FreeSlots(State) # {}
    /\ Commit(getBestMove(State, fen, timeLimit),
              Op("getBestMove", 0, <<>>, timeLimit, getBestMove(State, fen, timeLimit).rejection))

EvaluatePosition ==
  \E fen \in Fens : \E depth \in Depths :
    /\ isReady => FreeSlots(State) # {}
    /\ Commit(evaluatePosition(State, fen, depth),
              Op("evaluatePosition", 0, <<>>, depth, evaluatePosition(State, fen, depth).rejection))

MoveTimeoutFired ==
  \E r \in Slots :
    /\ reqs[r].timer = "armed"
    /\ QueueFits(moveTimeoutFired(State, r))
    /\ Commit(moveTimeoutFired(State, r), Op("timer", 0, <<>>, r, ""))

SetSkillLevel ==
  \E level \in Levels :
    /\ QueueFits(setSkillLevel(State, level))
    /\ Commit(setSkillLevel(State, level), Op("setSkillLevel", 0, <<>>, level, ""))

\* The engine has one more search to answer, that of request r, when the
\* callback wrote a 'go movetime' to it
Searching(s, r) ==
  IF \E i \in DOMAIN s.written : s.written[i].cmd.c = "go movetime"
  THEN [s EXCEPT !.procs[s.stockfishProcess].owed = Append(@, r)]
  ELSE s

\* getBestMove() to an engine whose searches are followed
EngineGetBestMove ==
  \E fen \in Fens : \E timeLimit \in TimeLimits :
    /\ isReady => FreeSlots(State) # {}
    /\ \A p \in DOMAIN procs : Len(procs[p].owed) < MaxReqs
    /\ LET s == getBestMove(State, fen, timeLimit)
       IN Commit(Searching(s, s.moveTimeout),
                 Op("getBestMove", 0, <<>>, timeLimit, s.rejection))

\* An engine that emits one 'bestmove' for each 'go' it received, in their
\* order ('stop' only makes it come sooner); op.arg is the request whose
\* search this bestmove answers
EngineBestmove ==
  \E p \in DOMAIN procs :
    /\ ~procs[p].closed
    /\ procs[p].owed # <<>>
    /\ LET s == handleStockfishOutput(State, <<LineBestmove>>)
       IN Commit([s EXCEPT !.procs[p].owed = Tail(@)],
                 Op("stdout", p, LineBestmove, Head(procs[p].owed), ""))

\* The engine writes a handshake line and its newline to stdout
EngineWrites ==
  \E p \in DOMAIN procs : \E text \in HandshakeTexts :
    /\ ~procs[p].closed
    /\ Len(pipe.delivered) + Len(pipe.pending) + Len(text) + 1 <= MaxStream
    /\ Commit([State EXCEPT !.pipe.pending = @ \o text \o <<NL>>],
              Op("write", p, Tokens(text), 0, ""))

\* A 'data' event: the pipe delivers any non-empty part of what is in transit
StdoutChunk ==
  \E p \in DOMAIN procs : \E k \in 1..Len(pipe.pending) :
    /\ ~procs[p].closed
    /\ Commit(onData(State, SubSeq(pipe.pending, 1, k)), Op("data", p, <<>>, k, ""))

\* A caller subscribes a listener to 'ready' that sends 'ucinewgame'
OnReady ==
  /\ ~readyListener
  /\ Commit([State EXCEPT !.readyListener = TRUE], Op("on", 0, <<>>, 0, "ready"))

\* setSkillLevel over the wider range of levels
SetAnySkillLevel ==
  \E level \in WideLevels :
    /\ QueueFits(setSkillLevel(State, level))
    /\ Commit(setSkillLevel(State, level), Op("setSkillLevel", 0, <<>>, level, ""))

\* quit(), from the window's 'closed' handler and from 'before-quit'
Quit ==
  /\ QueueFits(quit(State))
  /\ Commit(quit(State), Op("quit", 0, <<>>, 0, ""))

Next ==
  \/ Initialize
  \/ StdoutData
  \/ Close
  \/ GetBestMove
  \/ EvaluatePosition
  \/ MoveTimeoutFired
  \/ SetSkillLevel
  \/ Quit

Spec == Init /\ [][Next]_vars

\* The manager under repeated initialize(), with the handshake lines only
NextRestart ==
  \/ Initialize
  \/ Reinitialize
  \/ HandshakeData
  \/ Close
  \/ SetSkillLevel
  \/ Quit

SpecRestart == Init /\ [][NextRestart]_vars

\* The life of getBestMove requests: any engine output, process close, quit,
\* overlapping requests and the timers. Node runs the callback of every timer
\* that is armed and not cleared.
NextOutcome ==
  \/ Initialize
  \/ StdoutData
  \/ Close
  \/ GetBestMove
  \/ MoveTimeoutFired
  \/ Quit

SpecFair == Init /\ [][NextOutcome]_vars /\ WF_vars(MoveTimeoutFired)

\* The manager configured with any skill level, before and after readiness
NextSkill ==
  \/ Initialize
  \/ HandshakeData
  \/ Close
  \/ SetAnySkillLevel
  \/ Quit

SpecSkill == Init /\ [][NextSkill]_vars

\* The manager with a caller that may listen to 'ready' and send from there
NextObserver ==
  \/ OnReady
  \/ Initialize
  \/ HandshakeData
  \/ Close
  \/ SetSkillLevel
  \/ Quit

SpecObserver == Init /\ [][NextObserver]_vars

\* The manager with an engine that answers every 'go' with one 'bestmove'
NextEngine ==
  \/ Initialize
  \/ HandshakeData
  \/ Close
  \/ EngineGetBestMove
  \/ EngineBestmove
  \/ MoveTimeoutFired

SpecEngine == Init /\ [][NextEngine]_vars

\* The engine's handshake output delivered in chunks cut anywhere
NextChunk ==
  \/ Initialize
  \/ EngineWrites
  \/ StdoutChunk

SpecChunk == Init /\ [][NextChunk]_vars

\* ---------------------------------------------------------------------------
\* Properties
\* ---------------------------------------------------------------------------
\* The commands a callback wrote, whatever the process
Cmds(w) == [i \in DOMAIN w |-> w[i].cmd]

\* The fields of this.currentEvaluation (NoEval when it is null)
CurrentEval == IF currentEvaluation = NullRef THEN NoEval ELSE heap[currentEvaluation]

\* The last callback was the stdout listener, handling `line`
Handled(line) == op.name = "stdout" /\ op.line = line

\* C1: commands issued while isReady is false are not written before readiness
\* (only 'uci' and 'isready' are); the step that makes isReady true writes the
\* whole queue, in arrival order, each command once, and leaves it empty; a
\* 'readyok' handled when isReady is already true writes nothing.
C1_QueueFlushedInOrderOnce ==
  [][/\ (~isReady /\ ~isReady') =>
          \A i \in DOMAIN written' : written'[i].cmd \in {CmdUci, CmdIsready}
     /\ (~isReady /\ isReady') =>
          (Cmds(written') = pendingCommands /\ pendingCommands' = <<>>)
     /\ (isReady /\ Handled(LineReadyok)') => written' = <<>>]_vars

\* C2: no process makes the manager emit 'ready' (isReady false -> true) more
\* than once, lines it delivers after quit() included.
C2_ReadyOncePerProcess == \A p \in DOMAIN procs : procs[p].readies <= 1

\* C3: getBestMove or evaluatePosition called while isReady is false rejects
\* with the not-ready error and writes nothing, queues nothing, arms no timer
\* and subscribes no listener.
C3_NotReadyRejectsWithoutEffect ==
  [][(op'.name \in {"getBestMove", "evaluatePosition"} /\ ~isReady) =>
       /\ op'.result = "Stockfish not ready"
       /\ written' = <<>>
       /\ emitted' = <<>>
       /\ pendingCommands' = pendingCommands
       /\ reqs' = Live(reqs)
       /\ moveTimeout' = moveTimeout]_vars

\* C3 witness: an analysis call was rejected after the process had closed
C3_Witness ==
  /\ op.name \in {"getBestMove", "evaluatePosition"}
  /\ op.result = "Stockfish not ready"
  /\ procs # <<>> /\ procs[1].closed
  /\ \E r \in Slots : reqs[r].outcome = "pending"

\* C4: when the timer of a getBestMove request that no 'bestmove' line has
\* answered expires, the request is rejected with the timeout error and that
\* callback writes 'stop' to the engine, exactly once.
C4_TimeoutWritesStopOnce ==
  [][\A r \in Slots :
       (op'.name = "timer" /\ op'.arg = r /\ reqs[r].outcome = "pending") =>
         /\ reqs'[r].outcome = "rejected"
         /\ reqs'[r].result = Timeout
         /\ Cmds(written') = <<CmdStop>>]_vars

\* C5: handling the 'bestmove e2e4 ponder e7e5' line emits one 'bestmove'
\* notification with move e2e4 and the current evaluation, resolves every
\* pending getBestMove request with it, and leaves none of their timers armed.
C5_BestmoveSettlesEveryRequest ==
  [][Handled(LineBestmove)' =>
       /\ emitted' = <<Note("bestmove", "e2e4", CurrentEval)>>
       /\ \A r \in Slots :
            (reqs[r].kind = "best" /\ reqs[r].outcome = "pending") =>
              /\ reqs'[r].outcome = "resolved"
              /\ reqs'[r].result = [move |-> "e2e4", evaluation |-> CurrentEval]
              /\ reqs'[r].timer # "armed"]_vars

\* C6: handling 'info depth 5 nodes 200' (no score) leaves currentEvaluation
\* and all its fields as they were and emits nothing.
C6_ScorelessLineChangesNothing ==
  [][Handled(LineInfoNoScore)' =>
       /\ currentEvaluation' = currentEvaluation
       /\ CurrentEval' = CurrentEval
       /\ emitted' = <<>>]_vars

\* C7: a scored info-line replaces currentEvaluation by the line's kind and
\* value; 'info depth 12 score cp 34 nodes 1000 time 50' gives it the line's
\* depth, nodes and time and emits it once as 'evaluation', and so does
\* 'info score cp -20 nodes 7' (the absent depth and time are null);
\* 'info score mate -3' (no depth, no nodes) updates it and emits nothing.
C7_ScoredLineUpdatesAndEmits ==
  [][/\ Handled(LineInfoCp)' =>
          /\ CurrentEval' = [type |-> "centipawn", value |-> 34, depth |-> 12,
                             nodes |-> 1000, time |-> 50]
          /\ emitted' = <<Note("evaluation", "", CurrentEval')>>
     /\ Handled(LineInfoNodes)' =>
          /\ CurrentEval' = [type |-> "centipawn", value |-> -20, depth |-> NullNum,
                             nodes |-> 7, time |-> NullNum]
          /\ emitted' = <<Note("evaluation", "", CurrentEval')>>
     /\ Handled(LineInfoMate)' =>
          /\ CurrentEval' = [type |-> "mate", value |-> -3, depth |-> Undef,
                             nodes |-> Undef, time |-> Undef]
          /\ emitted' = <<>>]_vars

\* C7 witness: the mate line replaced an evaluation that an earlier line had
\* completed and a pending evaluatePosition had retained
C7_Witness ==
  /\ Handled(LineInfoMate)
  /\ CurrentEval.type = "mate" /\ CurrentEval.value = -3
  /\ \E r \in Slots :
       /\ reqs[r].finalEvaluation \notin {NullRef, currentEvaluation}
       /\ heap[reqs[r].finalEvaluation].type = "centipawn"

\* C8: an evaluatePosition request resolves with null when it retained no
\* update, and otherwise with the update it retained, fields as emitted, whose
\* depth is at least the requested depth.
C8_ResolvesWithQualifyingUpdate ==
  \A r \in Slots :
    (reqs[r].kind = "eval" /\ reqs[r].outcome = "resolved") =>
      /\ reqs[r].result.evaluation = reqs[r].retained
      /\ reqs[r].retained # NoEval => reqs[r].result.evaluation.depth >= reqs[r].arg

\* C9: quit() with a process handle writes 'quit' to that process, drops the
\* handle and clears isReady; quit() without a handle writes and changes nothing.
C9_QuitWritesQuit ==
  [][op'.name = "quit" =>
       IF stockfishProcess # NullRef
       THEN /\ written' = <<[p |-> stockfishProcess, cmd |-> CmdQuit]>>
            /\ stockfishProcess' = NullRef
            /\ ~isReady'
       ELSE /\ written' = <<>>
            /\ UNCHANGED <<stockfishProcess, isReady, pendingCommands,
                           currentEvaluation, moveTimeout>>]_vars

\* C10: once initialize() has run again, isReady holds only if the newest
\* process has sent 'uciok' and then 'readyok', and nothing queued before the
\* restart is still queued for the new process.
C10_RestartNeedsHandshake ==
  Len(procs) >= 2 =>
    /\ isReady => procs[Len(procs)].handshake = 2
    /\ (op.name = "initialize" /\ op.result = "respawned") => pendingCommands = <<>>

\* C11: initialize() with the binary absent emits exactly one 'error'
\* notification, spawns no process, leaves stockfishProcess null and isReady
\* false, and writes and queues no command.
C11_MissingBinaryOnlyEmitsError ==
  [][(op'.name = "initialize" /\ op'.result = "EngineNotFound") =>
       /\ emitted' = <<Note("error", "", NoEval)>>
       /\ procs' = procs /\ procs' = <<>>
       /\ stockfishProcess' = NullRef
       /\ ~isReady'
       /\ written' = <<>>
       /\ pendingCommands' = <<>>]_vars

\* C11 witness: initialize() has just failed for want of the binary
C11_Witness ==
  /\ op.name = "initialize" /\ op.result = "EngineNotFound"
  /\ emitted = <<Note("error", "", NoEval)>>
  /\ stockfishProcess = NullRef

\* The commands a callback passed to sendCommand while a process handle was
\* held: those it wrote when ready, those it appended to the queue when not
Issued ==
  IF isReady THEN Cmds(written')
  ELSE SubSeq(pendingCommands', Len(pendingCommands) + 1, Len(pendingCommands'))

\* The level setSkillLevel is to send for `level`: 0 below 0, 20 above 20
Clamped(level) == IF level < 0 THEN 0 ELSE IF level > 20 THEN 20 ELSE level

\* C12: setSkillLevel(level) issues 'setoption name Skill Level value v' with
\* v = max(0, min(20, level)), which lies in 0..20, and issues
\* 'setoption name MultiPV value 1' after it exactly when v < 20.
C12_SkillLevelClamped ==
  [][(op'.name = "setSkillLevel" /\ stockfishProcess # NullRef) =>
       LET v == Clamped(op'.arg)
       IN /\ v \in 0..20
          /\ Issued = IF v < 20
                      THEN <<Cmd("setoption name Skill Level value", v),
                             Cmd("setoption name MultiPV value", 1)>>
                      ELSE <<Cmd("setoption name Skill Level value", v)>>]_vars

\* C12 witness: setSkillLevel(25) wrote 'Skill Level value 20', and nothing else,
\* to a ready engine
C12_Witness ==
  /\ op.name = "setSkillLevel" /\ op.arg = 25
  /\ Cmds(written) = <<Cmd("setoption name Skill Level value", 20)>>

\* C13: isReady becomes true only on the 'readyok' of a process that has
\* delivered its 'uciok' before (to which the manager answered 'isready') and
\* no 'readyok' yet, whatever lines the engine emits; and a 'uciok' is
\* answered by writing 'isready'.
C13_ReadyOnlyAfterHandshake ==
  [][/\ (~isReady /\ isReady') =>
          /\ Handled(LineReadyok)'
          /\ procs[op'.p].handshake = 1
     /\ (Handled(LineUciok)' /\ stockfishProcess # NullRef) =>
          Cmds(written') = <<CmdIsready>>]_vars

\* The commands of a sequence other than the two handshake commands, which
\* sendCommand never queues
Queueable(cmds) == SelectSeq(cmds, LAMBDA c : c # CmdUci /\ c # CmdIsready)

IsPrefix(a, b) == Len(a) <= Len(b) /\ SubSeq(b, 1, Len(a)) = a

\* C14: commands are written in the order they were issued: whenever a
\* callback writes commands (the handshake commands 'uci' and 'isready' set
\* aside) while earlier commands wait in the queue, it writes the queued
\* commands first, in their order, and only then those issued during the
\* callback, a 'ready' listener's included.
C14_WrittenInIssueOrder ==
  [][Queueable(Cmds(written')) # <<>> =>
       IsPrefix(pendingCommands, Queueable(Cmds(written')))]_vars

\* The lines of a stream that are complete: those a newline ends
CompleteLines(cs) == SubSeq(split(cs), 1, Len(split(cs)) - 1)

\* The lines among `texts` that the manager acts on
Recognised(texts) == SelectSeq(texts, LAMBDA x : x \in HandshakeTexts)

\* C15: the lines the manager classifies depend only on the concatenated
\* stdout stream, not on how it was cut into chunks: once whole lines have been
\* delivered, the handshake lines handled are the handshake lines of the stream
\* ('ready' followed by 'ok\n' is one 'readyok').
C15_ChunkingInvariant ==
  (/\ pipe.pending = <<>>
   /\ pipe.delivered # <<>>
   /\ pipe.delivered[Len(pipe.delivered)] = NL)
  => Recognised(pipe.handled) = Recognised(CompleteLines(pipe.delivered))

\* C16: an evaluation belongs to one request: a 'bestmove' line that is the
\* first thing to arrive after a request was accepted (no scored info-line
\* since the request began) is notified with a null evaluation, never with the
\* evaluation gathered for an earlier request.
C16_EvaluationScopedToRequest ==
  [][(/\ op.name \in {"getBestMove", "evaluatePosition"}
      /\ op.result = ""
      /\ Handled(LineBestmove)')
     => \A i \in DOMAIN emitted' :
          emitted'[i].ev = "bestmove" => emitted'[i].evaluation = NoEval]_vars

\* C17: once a request has reached its terminal outcome (resolved, or rejected
\* with Timeout), none of its listeners is still subscribed and its timer is not
\* armed; after a getBestMove timeout no 'bestmove' listener of it is left.
C17_SettledRequestLeavesNothing ==
  \A r \in Slots :
    reqs[r].outcome \in {"resolved", "rejected"} =>
      /\ ~reqs[r].onBestmove
      /\ ~reqs[r].onEvaluation
      /\ reqs[r].timer # "armed"

TimerNeverHeld ==
  \A r \in Slots : reqs[r].timer = "armed" => QueueFits(moveTimeoutFired(State, r))

\* C19: with an engine that emits one 'bestmove' per 'go', a getBestMove
\* request is resolved only by the bestmove that answers its own 'go movetime':
\* the bestmove of an earlier search never resolves a later request.
C19_ResolvedByOwnBestmove ==
  [][Handled(LineBestmove)' =>
       \A r \in Slots :
         (/\ reqs[r].kind = "best" /\ reqs[r].outcome = "pending"
          /\ reqs'[r].outcome = "resolved")
         => r = op'.arg]_vars

\* C20: in every reachable state isReady = TRUE implies that a process handle
\* is held (stockfishProcess is not null), also when a 'readyok' arrives after
\* quit() during the handshake.
C20_ReadyImpliesProcess == isReady => stockfishProcess # NullRef

====
